---- MODULE Spec2Model ----
(***************************************************************************)
(* Model of the Eurostat ETL (etl_eurostat.py) and of the poverty query of *)
(* the dashboard (app_dashboard.py).                                       *)
(*                                                                         *)
(* Strings are sequences of one-character strings, so that lower(),        *)
(* replace('\time', ''), isdigit(), the 'geo' substring test and the       *)
(* numeric parse are computed character by character.  A cell (and a       *)
(* column label) is a record [t, s, n, d]: a string (t = "str", s = its    *)
(* characters), a number n/d in lowest terms (t = "num"), or the missing   *)
(* marker None/NaN (t = "nan").                                            *)
(***************************************************************************)
EXTENDS Integers, Sequences, FiniteSets, TLC

VARIABLES pc, raw, df, idx, cleaned_data, sink, log, fetched, table, params, result

vars == <<pc, raw, df, idx, cleaned_data, sink, log, fetched, table, params, result>>

\* Largest number of data rows of a fetched raw table.
MaxRows == 2

\* Largest number of rows of the poverty_risk table the dashboard queries.
MaxTableRows == 3

-----------------------------------------------------------------------------
(* Cells *)

Str(chars) == [t |-> "str", s |-> chars, n |-> 0, d |-> 1]

RECURSIVE GCD(_, _)
GCD(a, b) == IF b = 0 THEN a ELSE GCD(b, a % b)

Abs(x) == IF x < 0 THEN -x ELSE x

\* The number a/b (b > 0), in lowest terms.
Num(a, b) ==
    LET g == GCD(Abs(a), b)
    IN  [t |-> "num", s |-> <<>>, n |-> a \div g, d |-> b \div g]

NaN == [t |-> "nan", s |-> <<>>, n |-> 0, d |-> 1]

isna(c) == c.t = "nan"

-----------------------------------------------------------------------------
(* Python string operations *)

Digits == <<"0", "1", "2", "3", "4", "5", "6", "7", "8", "9">>

UpperCase == <<"A", "B", "C", "D", "E", "F", "G", "H", "I", "J", "K", "L", "M",
               "N", "O", "P", "Q", "R", "S", "T", "U", "V", "W", "X", "Y", "Z">>

LowerCase == <<"a", "b", "c", "d", "e", "f", "g", "h", "i", "j", "k", "l", "m",
               "n", "o", "p", "q", "r", "s", "t", "u", "v", "w", "x", "y", "z">>

IsDigitChar(c) == \E k \in 1..10 : Digits[k] = c

DigitVal(c) == (CHOOSE k \in 1..10 : Digits[k] = c) - 1

\* str.isdigit(): non-empty and every character a decimal digit.
isdigit(s) == Len(s) > 0 /\ \A k \in 1..Len(s) : IsDigitChar(s[k])

lower_char(c) ==
    IF \E k \in 1..26 : UpperCase[k] = c
    THEN LowerCase[CHOOSE k \in 1..26 : UpperCase[k] = c]
    ELSE c

\* str.lower()
lower(s) == [k \in 1..Len(s) |-> lower_char(s[k])]

\* The time-axis marker '\time' of line 62.
TimeMarker == <<"\\", "t", "i", "m", "e">>

\* str.replace('\\time', ''): every occurrence, left to right, is removed.
RECURSIVE replace_time(_)
replace_time(s) ==
    IF Len(s) < Len(TimeMarker) THEN s
    ELSE IF SubSeq(s, 1, Len(TimeMarker)) = TimeMarker
         THEN replace_time(SubSeq(s, Len(TimeMarker) + 1, Len(s)))
         ELSE <<s[1]>> \o replace_time(Tail(s))

s_geo == <<"g", "e", "o">>
s_year == <<"y", "e", "a", "r">>
s_value == <<"v", "a", "l", "u", "e">>

\* 'geo' in c
contains_geo(s) == \E k \in 1..(Len(s) - 2) : SubSeq(s, k, k + 2) = s_geo

RECURSIVE IntOf(_)
IntOf(s) == IF Len(s) = 0 THEN 0
            ELSE IntOf(SubSeq(s, 1, Len(s) - 1)) * 10 + DigitVal(s[Len(s)])

RECURSIVE Pow10(_)
Pow10(k) == IF k = 0 THEN 1 ELSE 10 * Pow10(k - 1)

RECURSIVE DigitsOf(_)
DigitsOf(n) == IF n < 10 THEN <<Digits[n + 1]>>
               ELSE DigitsOf(n \div 10) \o <<Digits[(n % 10) + 1]>>

\* str(col) of a column label: the string itself, or the decimal form of an int.
str(c) == IF c.t = "str" THEN c.s
          ELSE IF c.n < 0 THEN <<"-">> \o DigitsOf(-c.n) ELSE DigitsOf(c.n)

\* isinstance(col, int)
isinstance_int(c) == c.t = "num" /\ c.d = 1

\* The parse of an unsigned decimal literal: digits, at most one '.', at least
\* one digit.  Any other token is not a number.
IsDecimal(s) ==
    /\ \A k \in 1..Len(s) : IsDigitChar(s[k]) \/ s[k] = "."
    /\ Cardinality({k \in 1..Len(s) : s[k] = "."}) <= 1
    /\ \E k \in 1..Len(s) : IsDigitChar(s[k])

DecimalOf(s) ==
    LET dots == {k \in 1..Len(s) : s[k] = "."}
        p    == IF dots = {} THEN Len(s) + 1 ELSE CHOOSE k \in dots : TRUE
        ip   == SubSeq(s, 1, p - 1)
        fp   == SubSeq(s, p + 1, Len(s))
    IN  Num(IntOf(ip \o fp), Pow10(Len(fp)))

\* pd.to_numeric(..., errors='coerce') on one cell: a number stays, a string
\* that is a decimal literal (optionally signed) becomes its number, anything
\* else becomes NaN.
to_numeric(c) ==
    IF c.t = "num" THEN c
    ELSE IF c.t = "nan" THEN NaN
    ELSE LET s    == c.s
             sgn  == Len(s) > 0 /\ s[1] \in {"-", "+"}
             body == IF sgn THEN Tail(s) ELSE s
         IN  IF ~IsDecimal(body) THEN NaN
             ELSE IF sgn /\ s[1] = "-"
                  THEN Num(-DecimalOf(body).n, DecimalOf(body).d)
                  ELSE DecimalOf(body)

-----------------------------------------------------------------------------
(* DataFrames: [cols |-> labels, rows |-> rows of cells aligned with cols] *)

Range(f) == {f[k] : k \in DOMAIN f}

\* The position of label c among cols (labels of a frame are distinct).
ColIndex(cols, c) == CHOOSE k \in 1..Len(cols) : cols[k] = c

c_year == Str(s_year)
c_value == Str(s_value)
c_geo == Str(s_geo)

\* Variant of is_id_var: the marker is removed before the digit test.
is_id_varMutSuffix(col) ==
    ~isdigit(replace_time(str(col))) /\ ~isinstance_int(col)

\* Line 52: the test that makes a column an identifier column.
is_id_var(col) == ~isdigit(str(col)) /\ ~isinstance_int(col)

\* Line 52: the identifier columns, in their original order.
id_vars(cols) == SelectSeq(cols, is_id_var)

\* DataFrame.melt: the value columns are the columns not among id_vars.
is_value_var(col) == ~is_id_var(col)

value_vars(cols) == SelectSeq(cols, is_value_var)

\* Variant of melt: the last melted row is lost.
meltMutDropLast(frame) ==
    LET ids  == id_vars(frame.cols)
        vals == value_vars(frame.cols)
        N    == Len(frame.rows)
        K    == Len(vals)
        M    == IF N * K > 0 THEN N * K - 1 ELSE 0
    IN  [cols |-> ids \o <<c_year, c_value>>,
         rows |-> [r \in 1..M |->
                     LET k == ((r - 1) \div N) + 1
                         i == ((r - 1) % N) + 1
                     IN  [j \in 1..Len(ids) |->
                            frame.rows[i][ColIndex(frame.cols, ids[j])]]
                         \o <<vals[k],
                              frame.rows[i][ColIndex(frame.cols, vals[k])]>>]]

\* Line 55: df.melt(id_vars=id_vars, var_name='year', value_name='value').
\* The output holds, for each value column in order, every input row in order.
melt(frame) ==
    LET ids  == id_vars(frame.cols)
        vals == value_vars(frame.cols)
        N    == Len(frame.rows)
        K    == Len(vals)
    IN  [cols |-> ids \o <<c_year, c_value>>,
         rows |-> [r \in 1..(N * K) |->
                     LET k == ((r - 1) \div N) + 1
                         i == ((r - 1) % N) + 1
                     IN  [j \in 1..Len(ids) |->
                            frame.rows[i][ColIndex(frame.cols, ids[j])]]
                         \o <<vals[k],
                              frame.rows[i][ColIndex(frame.cols, vals[k])]>>]]

\* frame[label] = to_numeric(frame[label], errors='coerce')
coerce_column(frame, label) ==
    LET p == ColIndex(frame.cols, label)
    IN  [frame EXCEPT !.rows =
            [r \in 1..Len(frame.rows) |->
                [frame.rows[r] EXCEPT ![p] = to_numeric(frame.rows[r][p])]]]

\* Variant of coerce: only 'year' is converted.
coerceMutYearOnly(frame) == coerce_column(frame, c_year)

\* Variant of coerce: rows whose value does not parse are dropped at once.
coerceMutDropUnparsed(frame) ==
    LET c == coerce_column(coerce_column(frame, c_year), c_value)
        p == ColIndex(frame.cols, c_value)
        keep(row) == ~isna(row[p])
    IN  [c EXCEPT !.rows = SelectSeq(c.rows, keep)]

\* Lines 58-59.
coerce(frame) == coerce_column(coerce_column(frame, c_year), c_value)

\* Line 62: every label lower-cased, then every '\time' removed.
rename_columns(frame) ==
    [frame EXCEPT !.cols =
        [k \in 1..Len(frame.cols) |-> Str(replace_time(lower(frame.cols[k].s)))]]

\* Lines 65-69: when no label is 'geo', the first label containing 'geo' is
\* renamed to 'geo'.
rename_geo(frame) ==
    IF c_geo \in Range(frame.cols) THEN frame
    ELSE LET cand == {k \in 1..Len(frame.cols) : contains_geo(frame.cols[k].s)}
         IN  IF cand = {} THEN frame
             ELSE LET g == CHOOSE k \in cand : \A m \in cand : k <= m
                  IN  [frame EXCEPT !.cols[g] = c_geo]

\* Variant of dropna_subset: 'geo' is left out.
dropna_subsetMutNoGeo == {c_year, c_value}

\* Line 72: the labels dropna is given.
dropna_subset == {c_year, c_value, c_geo}

\* dropna raises KeyError when a label of the subset is absent.
dropna_raises(frame) == ~(dropna_subset \subseteq Range(frame.cols))

\* Variant of keep_row: how='all', a row goes only when every cell is missing.
keep_rowMutHowAll(frame, row) ==
    \E c \in dropna_subset : ~isna(row[ColIndex(frame.cols, c)])

\* dropna keeps a row when none of the subset's cells is missing (how='any').
keep_row(frame, row) ==
    \A c \in dropna_subset : ~isna(row[ColIndex(frame.cols, c)])

\* Line 72: dropna(subset=['year', 'value', 'geo']).
RECURSIVE FilterRows(_, _)
FilterRows(frame, rows) ==
    IF rows = <<>> THEN <<>>
    ELSE (IF keep_row(frame, Head(rows)) THEN <<Head(rows)>> ELSE <<>>)
         \o FilterRows(frame, Tail(rows))

dropna(frame) == [frame EXCEPT !.rows = FilterRows(frame, frame.rows)]

\* Lines 52-72 before the filter.
prepare(frame) == rename_geo(rename_columns(coerce(melt(frame))))

\* Variant of clean: a table without value columns raises.
cleanMutRaiseOnNoYear(frame) ==
    LET m == prepare(frame)
    IN  IF dropna_raises(m) \/ value_vars(frame.cols) = <<>>
        THEN [raised |-> TRUE, df |-> m]
        ELSE [raised |-> FALSE, df |-> dropna(m)]

\* Lines 52-86 for one fetched table: raised = an exception reached line 89.
clean(frame) ==
    LET m == prepare(frame)
    IN  IF dropna_raises(m) THEN [raised |-> TRUE, df |-> m]
        ELSE [raised |-> FALSE, df |-> dropna(m)]

-----------------------------------------------------------------------------
(* The configured datasets (lines 31-36) and the tables a fetch may return *)

datasets == <<[name |-> "unemployment", code |-> "une_rt_a"],
              [name |-> "poverty_risk", code |-> "ilc_li02"],
              [name |-> "leaving_home", code |-> "yth_demo_030"],
              [name |-> "housing_cost", code |-> "tessi161"]>>

IntLabel(n) == Num(n, 1)

h_geo_time == Str(<<"g", "e", "o", "\\", "t", "i", "m", "e">>)
h_geo_period == Str(<<"g", "e", "o", "\\", "T", "I", "M", "E", "_",
                      "P", "E", "R", "I", "O", "D">>)
h_GEO == Str(<<"G", "E", "O">>)
h_age == Str(<<"a", "g", "e">>)
h_Age == Str(<<"A", "g", "e">>)
h_sex == Str(<<"s", "e", "x">>)
h_unit == Str(<<"u", "n", "i", "t">>)
h_2021 == Str(<<"2", "0", "2", "1">>)
h_2022 == Str(<<"2", "0", "2", "2">>)
h_2022_time == Str(<<"2", "0", "2", "2", "\\", "t", "i", "m", "e">>)

v_IT == Str(<<"I", "T">>)
v_FR == Str(<<"F", "R">>)
v_Y15_29 == Str(<<"Y", "1", "5", "-", "2", "9">>)
v_T == Str(<<"T">>)
v_PC_ACT == Str(<<"P", "C", "_", "A", "C", "T">>)
v_10_5 == Str(<<"1", "0", ".", "5">>)
v_11_0 == Str(<<"1", "1", ".", "0">>)
v_colon == Str(<<":">>)
v_flagged == Str(<<"9", ".", "1", " ", "b">>)
v_neg == Str(<<"-", "1", ".", "5">>)

\* The header of the Eurostat tables the script is written for (line 48).
Header1 == <<h_geo_time, h_age, h_sex, h_unit, h_2021, h_2022>>

\* Labels in the other shapes the script provides for: upper case, a geography
\* label that only contains 'geo', integer labels, a year label carrying the
\* time-axis marker, year columns before identifier columns.
Header2 == <<h_2021, h_Age, h_geo_period, h_2022_time, IntLabel(2020), h_GEO, IntLabel(-1)>>

\* The subsequence of h at the positions in S.
RECURSIVE Pick(_, _, _)
Pick(h, S, k) ==
    IF k > Len(h) THEN <<>>
    ELSE (IF k \in S THEN <<h[k]>> ELSE <<>>) \o Pick(h, S, k + 1)

SubHeaders(h) == {Pick(h, S, 1) : S \in SUBSET (1..Len(h))}

Headers == SubHeaders(Header1) \cup SubHeaders(Header2)

\* A table whose cell at row i, column j is the token "i.j".
GridTable(h, n) ==
    [cols |-> h,
     rows |-> [i \in 1..n |-> [j \in 1..Len(h) |->
                  Str(<<Digits[i + 1], ".", Digits[j + 1]>>)]]]

GridTables == {GridTable(h, n) : h \in Headers, n \in 0..MaxRows}

\* Tables over Header1 whose geography cell may be missing and whose value
\* cells may be a literal, a placeholder or missing.
ValueCells == {v_10_5, v_11_0, v_colon, NaN}

Header1Rows ==
    {<<g, v_Y15_29, v_T, v_PC_ACT, a, b>> :
        g \in {v_IT, NaN}, a \in ValueCells, b \in ValueCells}

RowSeqs(R, n) == UNION {[1..m -> R] : m \in 0..n}

CellTables == {[cols |-> Header1, rows |-> rs] : rs \in RowSeqs(Header1Rows, MaxRows)}

\* Narrow tables whose value cell ranges over more kinds of cell.
WideValueCells == ValueCells \cup {Num(21, 2), IntLabel(7), v_flagged, v_neg}

NarrowRows == {<<g, a>> : g \in {v_FR, NaN}, a \in WideValueCells}

NarrowTables ==
    {[cols |-> <<h_GEO, h_2021>>, rows |-> rs] : rs \in RowSeqs(NarrowRows, MaxRows)}

RawTables == GridTables \cup CellTables \cup NarrowTables

-----------------------------------------------------------------------------
(* State *)

LogEntry(level, msg, name) == [level |-> level, msg |-> msg, name |-> name]

NoFrame == [cols |-> <<>>, rows |-> <<>>]

NoParams == [countries |-> {}, year |-> 0]

\* The state before any dataset is fetched.
Start ==
    /\ raw = NoFrame
    /\ df = NoFrame
    /\ idx = 1
    /\ cleaned_data = <<>>
    /\ sink = {}
    /\ log = <<>>
    /\ fetched = <<>>
    /\ table = {}
    /\ params = NoParams
    /\ result = {}

-----------------------------------------------------------------------------
(* One pass of the loop body of fetch_and_clean_data (lines 41-90), line by *)
(* line, on the first dataset.                                              *)

InitClean == pc = "fetch" /\ Start

\* Lines 41-44: the fetch returns a table.
CFetch ==
    /\ pc = "fetch"
    /\ \E r \in RawTables : raw' = r /\ df' = r
    /\ log' = Append(log, LogEntry("INFO", "Fetching dataset", datasets[idx].name))
    /\ pc' = "melt"
    /\ UNCHANGED <<idx, cleaned_data, sink, fetched, table, params, result>>

\* Lines 44 and 89-90: the fetch raises and the dataset is skipped.
CFetchFails ==
    /\ pc = "fetch"
    /\ log' = Append(Append(log, LogEntry("INFO", "Fetching dataset", datasets[idx].name)),
                     LogEntry("ERROR", "Error processing", datasets[idx].name))
    /\ idx' = idx + 1
    /\ pc' = "next"
    /\ UNCHANGED <<raw, df, cleaned_data, sink, fetched, table, params, result>>

\* Lines 52-55.
CMelt ==
    /\ pc = "melt"
    /\ df' = melt(df)
    /\ pc' = "to_numeric"
    /\ UNCHANGED <<raw, idx, cleaned_data, sink, log, fetched, table, params, result>>

\* Lines 58-59.
CToNumeric ==
    /\ pc = "to_numeric"
    /\ df' = coerce(df)
    /\ pc' = "rename_columns"
    /\ UNCHANGED <<raw, idx, cleaned_data, sink, log, fetched, table, params, result>>

\* Line 62.
CRenameColumns ==
    /\ pc = "rename_columns"
    /\ df' = rename_columns(df)
    /\ pc' = "rename_geo"
    /\ UNCHANGED <<raw, idx, cleaned_data, sink, log, fetched, table, params, result>>

\* Lines 65-69.
CRenameGeo ==
    /\ pc = "rename_geo"
    /\ df' = rename_geo(df)
    /\ pc' = "dropna"
    /\ UNCHANGED <<raw, idx, cleaned_data, sink, log, fetched, table, params, result>>

\* Line 72: the subset's labels exist and the incomplete rows are dropped.
CDropna ==
    /\ pc = "dropna"
    /\ ~dropna_raises(df)
    /\ df' = dropna(df)
    /\ pc' = "store"
    /\ UNCHANGED <<raw, idx, cleaned_data, sink, log, fetched, table, params, result>>

\* Lines 72 and 89-90: dropna raises and the dataset is skipped.
CExcept ==
    /\ pc = "dropna"
    /\ dropna_raises(df)
    /\ log' = Append(log, LogEntry("ERROR", "Error processing", datasets[idx].name))
    /\ idx' = idx + 1
    /\ pc' = "next"
    /\ UNCHANGED <<raw, df, cleaned_data, sink, fetched, table, params, result>>

\* Lines 86-87.
CStore ==
    /\ pc = "store"
    /\ cleaned_data' = Append(cleaned_data, [name |-> datasets[idx].name, df |-> df])
    /\ log' = Append(log, LogEntry("INFO", "Dataset processed", datasets[idx].name))
    /\ idx' = idx + 1
    /\ pc' = "next"
    /\ UNCHANGED <<raw, df, sink, fetched, table, params, result>>

NextClean ==
    \/ CFetch \/ CFetchFails \/ CMelt \/ CToNumeric \/ CRenameColumns \/ CRenameGeo
    \/ CDropna \/ CExcept \/ CStore

SpecClean == InitClean /\ [][NextClean]_vars

-----------------------------------------------------------------------------
(* The whole run: __main__ (lines 115-128), fetch_and_clean_data (27-101)   *)
(* and load_to_postgres (103-113).  One action is one loop iteration.       *)

\* The tables eurostat.get_data_df returns in the run.
RunTables ==
    {[cols |-> Header1,
      rows |-> <<(<<v_IT, v_Y15_29, v_T, v_PC_ACT, v_10_5, v_11_0>>)>>],
     [cols |-> Header1,
      rows |-> <<(<<v_IT, v_Y15_29, v_T, v_PC_ACT, v_10_5, v_colon>>),
                 (<<NaN, v_Y15_29, v_T, v_PC_ACT, v_11_0, NaN>>)>>],
     [cols |-> <<h_age, h_sex, h_2021>>,
      rows |-> <<(<<v_Y15_29, v_T, v_10_5>>)>>],
     [cols |-> <<h_geo_time, h_age>>,
      rows |-> <<(<<v_IT, v_Y15_29>>)>>],
     [cols |-> <<h_age, h_sex>>,
      rows |-> <<(<<v_Y15_29, v_T>>)>>],
     [cols |-> <<h_unit, h_geo_period, h_2022>>,
      rows |-> <<(<<v_PC_ACT, v_FR, v_11_0>>)>>]}

\* eurostat.get_data_df(code) returns a table or raises.
FetchError == [ok |-> FALSE, frame |-> NoFrame]

Fetched(frame) == [ok |-> TRUE, frame |-> frame]

FetchOutcomes == {FetchError} \cup {Fetched(r) : r \in RunTables}

\* Lines 95-96: the table built from eurostat_dictionary; its rows stand for
\* the dictionary's items.
country_codes_df ==
    [cols |-> <<c_geo, Str(<<"c", "o", "u", "n", "t", "r", "y", "_",
                             "n", "a", "m", "e">>)>>,
     rows |-> <<(<<v_IT, Str(<<"I", "t", "a", "l", "y">>)>>),
                (<<v_FR, Str(<<"F", "r", "a", "n", "c", "e">>)>>)>>]

\* The try body of lines 42-87 and its except of lines 89-90, for dataset idx
\* and fetch outcome o.
cleaned_after(o) ==
    IF o.ok /\ ~clean(o.frame).raised
    THEN Append(cleaned_data, [name |-> datasets[idx].name, df |-> clean(o.frame).df])
    ELSE cleaned_data

log_after(o) ==
    Append(Append(log, LogEntry("INFO", "Fetching dataset", datasets[idx].name)),
           IF o.ok /\ ~clean(o.frame).raised
           THEN LogEntry("INFO", "Dataset processed", datasets[idx].name)
           ELSE LogEntry("ERROR", "Error processing", datasets[idx].name))

InitRun ==
    /\ pc = "fetch"
    /\ raw = NoFrame
    /\ df = NoFrame
    /\ idx = 1
    /\ cleaned_data = <<>>
    /\ sink = {}
    /\ log = <<LogEntry("INFO", "Starting ETL process", "")>>
    /\ fetched = <<>>
    /\ table = {}
    /\ params = NoParams
    /\ result = {}

\* Variant of FetchAndClean: the try encloses the loop, a failure ends it.
FetchAndCleanMutAbort ==
    /\ pc = "fetch"
    /\ idx <= Len(datasets)
    /\ \E o \in FetchOutcomes :
          /\ fetched' = Append(fetched, o)
          /\ cleaned_data' = cleaned_after(o)
          /\ log' = log_after(o)
          /\ idx' = IF o.ok /\ ~clean(o.frame).raised THEN idx + 1
                    ELSE Len(datasets) + 1
    /\ UNCHANGED <<pc, raw, df, sink, table, params, result>>

\* Lines 40-90: one iteration of the loop over the datasets.
FetchAndClean ==
    /\ pc = "fetch"
    /\ idx <= Len(datasets)
    /\ \E o \in FetchOutcomes :
          /\ fetched' = Append(fetched, o)
          /\ cleaned_data' = cleaned_after(o)
          /\ log' = log_after(o)
    /\ idx' = idx + 1
    /\ UNCHANGED <<pc, raw, df, sink, table, params, result>>

\* Lines 92-101: the country codes table is added and cleaned_data returned.
CountryCodes ==
    /\ pc = "fetch"
    /\ idx > Len(datasets)
    /\ cleaned_data' = Append(cleaned_data,
                              [name |-> "country_codes", df |-> country_codes_df])
    /\ log' = Append(Append(log, LogEntry("INFO", "Processing Country Codes", "")),
                     LogEntry("INFO", "Country Codes processed", ""))
    /\ pc' = "engine"
    /\ UNCHANGED <<raw, df, idx, sink, fetched, table, params, result>>

\* Line 124: get_db_engine() returns an engine.
GetEngine ==
    /\ pc = "engine"
    /\ pc' = "load"
    /\ idx' = 1
    /\ UNCHANGED <<raw, df, cleaned_data, sink, log, fetched, table, params, result>>

\* Lines 124, 127-128: get_db_engine() raises (db_config.py line 66 re-raises).
EngineFails ==
    /\ pc = "engine"
    /\ log' = Append(log, LogEntry("ERROR", "ETL failed during DB load", ""))
    /\ pc' = "done"
    /\ UNCHANGED <<raw, df, idx, cleaned_data, sink, fetched, table, params, result>>

\* Line 110: to_sql(..., if_exists='replace') replaces the table of that name.
to_sql(s, name, frame) ==
    {e \in s : e.name # name} \cup {[name |-> name, df |-> frame]}

\* Lines 107-113: one iteration of the loop over data_dict; the write
\* succeeds or raises.
LoadTable ==
    /\ pc = "load"
    /\ idx <= Len(cleaned_data)
    /\ \E ok \in BOOLEAN :
          /\ sink' = IF ok THEN to_sql(sink, cleaned_data[idx].name, cleaned_data[idx].df)
                     ELSE sink
          /\ log' = Append(Append(log,
                               LogEntry("INFO", "Loading to database", cleaned_data[idx].name)),
                           IF ok
                           THEN LogEntry("INFO", "Successfully loaded", cleaned_data[idx].name)
                           ELSE LogEntry("ERROR", "Failed to load", cleaned_data[idx].name))
    /\ idx' = idx + 1
    /\ UNCHANGED <<pc, raw, df, cleaned_data, fetched, table, params, result>>

\* Line 126: load_to_postgres has returned.
Finish ==
    /\ pc = "load"
    /\ idx > Len(cleaned_data)
    /\ log' = Append(log, LogEntry("INFO", "ETL process finished successfully. Data loaded to DB.", ""))
    /\ pc' = "done"
    /\ UNCHANGED <<raw, df, idx, cleaned_data, sink, fetched, table, params, result>>

Next ==
    \/ FetchAndClean \/ CountryCodes \/ GetEngine \/ EngineFails
    \/ LoadTable \/ Finish

Spec == InitRun /\ [][Next]_vars

-----------------------------------------------------------------------------
(* Properties of the run *)

DatasetNames == {datasets[k].name : k \in 1..Len(datasets)}

StoredNames == {cleaned_data[k].name : k \in 1..Len(cleaned_data)}

SinkNames == {e.name : e \in sink}

Logged(level, msg, name) == LogEntry(level, msg, name) \in Range(log)

\* The loop of fetch_and_clean_data has ended.
FetchLoopOver == pc \in {"engine", "load", "done"}

\* load_to_postgres has returned.
LoadReturned ==
    /\ pc = "done"
    /\ log[Len(log)].msg = "ETL process finished successfully. Data loaded to DB."

ProcessingFailed(name) == Logged("ERROR", "Error processing", name)

LoadFailed(name) == Logged("ERROR", "Failed to load", name)

\* No label is 'geo' after lower-casing and removing the marker, and none
\* contains 'geo'.
NoGeoColumn(cols) ==
    \A j \in 1..Len(cols) : ~contains_geo(replace_time(lower(str(cols[j]))))

\* No label is a year token.
NoYearColumn(cols) ==
    \A j \in 1..Len(cols) :
        ~(cols[j].t = "num" \/ (cols[j].t = "str" /\ isdigit(cols[j].s)))

\* Every record of the frame has geo, year and value present.
Complete(frame) ==
    /\ {c_geo, c_year, c_value} \subseteq Range(frame.cols)
    /\ \A r \in 1..Len(frame.rows) :
          \A c \in {c_geo, c_year, c_value} :
              frame.rows[r][ColIndex(frame.cols, c)] # NaN

\* C1: every normalized table stored in cleaned_data for a dataset, and every
\* such table written to the sink, holds only records whose geo, year and
\* value are all present.
C1_NoMissingInOutput ==
    /\ \A k \in 1..Len(cleaned_data) :
          cleaned_data[k].name \in DatasetNames => Complete(cleaned_data[k].df)
    /\ \A e \in sink : e.name \in DatasetNames => Complete(e.df)

\* A table with records missing geo, with an unparseable value and with a
\* missing value was fetched, and its one complete record reached the sink.
C1_Witness ==
    \E k \in 1..Len(fetched) :
        /\ fetched[k].ok
        /\ \E r \in 1..Len(fetched[k].frame.rows) : fetched[k].frame.rows[r][1] = NaN
        /\ \E e \in sink :
              /\ e.name = datasets[k].name
              /\ Len(e.df.rows) = 1

\* The normalized table of each table a fetch may return.
NormalizedOf == [r \in RunTables |-> clean(r).df]

\* C3: a dataset's failure never ends either loop.  After the fetch loop every
\* configured dataset has been fetched, and each one whose fetch and
\* normalization did not fail is in cleaned_data with its normalized table;
\* after load_to_postgres every table of cleaned_data has been tried, and each
\* one whose write did not fail is in the sink, whatever failed for the others.
C3_FailuresIsolated ==
    /\ FetchLoopOver =>
          /\ Len(fetched) = Len(datasets)
          /\ \A k \in 1..Len(datasets) :
                /\ Logged("INFO", "Fetching dataset", datasets[k].name)
                /\ (fetched[k].ok /\ ~ProcessingFailed(datasets[k].name))
                      => \E m \in 1..Len(cleaned_data) :
                            cleaned_data[m] = [name |-> datasets[k].name,
                                               df |-> NormalizedOf[fetched[k].frame]]
    /\ LoadReturned =>
          \A m \in 1..Len(cleaned_data) :
              /\ Logged("INFO", "Loading to database", cleaned_data[m].name)
              /\ ~LoadFailed(cleaned_data[m].name) => cleaned_data[m] \in sink

\* The first dataset's fetch failed, the second's normalization failed, the
\* third's write failed, and the fourth was fetched, normalized and written.
C3_Witness ==
    /\ LoadReturned
    /\ ~fetched[1].ok
    /\ fetched[2].ok /\ ProcessingFailed(datasets[2].name)
    /\ LoadFailed(datasets[3].name)
    /\ datasets[4].name \in SinkNames

\* C4: a fetched dataset none of whose columns canonicalizes to geo is never
\* in cleaned_data and never in the sink, and no table of the sink lacks geo.
C4_NoGeoNeverLoaded ==
    /\ \A k \in 1..Len(fetched) :
          (fetched[k].ok /\ NoGeoColumn(fetched[k].frame.cols))
             => /\ datasets[k].name \notin StoredNames
                /\ datasets[k].name \notin SinkNames
    /\ \A e \in sink : c_geo \in Range(e.df.cols)

\* A dataset with year columns and no geo column was fetched and skipped while
\* the run loaded another dataset.
C4_Witness ==
    /\ LoadReturned
    /\ \E k \in 1..Len(fetched) :
          /\ fetched[k].ok
          /\ NoGeoColumn(fetched[k].frame.cols)
          /\ ~NoYearColumn(fetched[k].frame.cols)
          /\ ProcessingFailed(datasets[k].name)
    /\ \E e \in sink : e.name \in DatasetNames

\* Some dataset's fetch, normalization or write failed.
SomeDatasetFailed ==
    \E n \in DatasetNames : ProcessingFailed(n) \/ LoadFailed(n)

\* C7: when a dataset failed to be fetched, normalized or written, the run's
\* final report is not the plain statement of overall success.
C7_PartialSuccessReported ==
    (pc = "done" /\ SomeDatasetFailed)
        => log[Len(log)].msg # "ETL process finished successfully. Data loaded to DB."

\* C8 as stated: a fetched dataset without year columns raises no error and
\* is stored with zero records.
C8_NoYearNeverFails ==
    \A k \in 1..Len(fetched) :
        (fetched[k].ok /\ NoYearColumn(fetched[k].frame.cols))
           => /\ ~ProcessingFailed(datasets[k].name)
              /\ \E m \in 1..Len(cleaned_data) :
                    /\ cleaned_data[m].name = datasets[k].name
                    /\ cleaned_data[m].df.rows = <<>>

\* C8 amended: a fetched dataset without year columns, one of whose columns
\* canonicalizes to geo, raises no error and is stored with zero records; one
\* with no such column fails on the missing geography and is skipped; in both
\* cases the loop goes on to the next dataset.
C8_NoYearWithGeoIsEmpty ==
    /\ \A k \in 1..Len(fetched) :
          (fetched[k].ok /\ NoYearColumn(fetched[k].frame.cols))
             => IF NoGeoColumn(fetched[k].frame.cols)
                THEN /\ ProcessingFailed(datasets[k].name)
                     /\ datasets[k].name \notin StoredNames
                ELSE /\ ~ProcessingFailed(datasets[k].name)
                     /\ \E m \in 1..Len(cleaned_data) :
                           /\ cleaned_data[m].name = datasets[k].name
                           /\ cleaned_data[m].df.rows = <<>>
                           /\ Complete(cleaned_data[m].df)
    /\ pc = "fetch" => idx = Len(fetched) + 1
    /\ FetchLoopOver => Len(fetched) = Len(datasets)

\* A dataset without year columns was stored empty, and the next dataset was
\* fetched and stored with records.
C8_Witness ==
    \E k \in 1..(Len(fetched) - 1) :
        /\ fetched[k].ok
        /\ NoYearColumn(fetched[k].frame.cols)
        /\ fetched[k].frame.rows # <<>>
        /\ \E m \in 1..(Len(cleaned_data) - 1) :
              /\ cleaned_data[m].name = datasets[k].name
              /\ cleaned_data[m].df.rows = <<>>
              /\ cleaned_data[m + 1].name = datasets[k + 1].name
              /\ cleaned_data[m + 1].df.rows # <<>>

-----------------------------------------------------------------------------
(* Properties of the normalization of one table *)

\* A year token: an integer label or a non-empty string of decimal digits.
IsYearToken(c) == c.t = "num" \/ (c.t = "str" /\ isdigit(c.s))

NotYearToken(c) == ~IsYearToken(c)

YearPos(cols) == {j \in 1..Len(cols) : IsYearToken(cols[j])}

IdPos(cols) == (1..Len(cols)) \ YearPos(cols)

\* The cells of row at the positions in S, in order.
RECURSIVE CellsAt(_, _, _)
CellsAt(row, S, k) ==
    IF k > Len(row) THEN <<>>
    ELSE (IF k \in S THEN <<row[k]>> ELSE <<>>) \o CellsAt(row, S, k + 1)

\* The melted row of input row i and year column j.
MeltedRow(frame, i, j) ==
    CellsAt(frame.rows[i], IdPos(frame.cols), 1) \o <<frame.cols[j], frame.rows[i][j]>>

Count(rows, e) == Cardinality({r \in 1..Len(rows) : rows[r] = e})

\* C2: for a table with a year column and an identifier column, the melted
\* table has rows x year-columns rows, and holds the row of each (input row,
\* year column) pair exactly as many times as pairs yield that row.
C2_MeltRowCount ==
    (pc = "to_numeric" /\ YearPos(raw.cols) # {} /\ IdPos(raw.cols) # {})
        => /\ Len(df.rows) = Len(raw.rows) * Cardinality(YearPos(raw.cols))
           /\ \A i \in 1..Len(raw.rows) : \A j \in YearPos(raw.cols) :
                 Count(df.rows, MeltedRow(raw, i, j))
                    = Cardinality({p \in (1..Len(raw.rows)) \X YearPos(raw.cols) :
                                      MeltedRow(raw, p[1], p[2]) = MeltedRow(raw, i, j)})

\* Two rows and two year columns were melted into four rows.
C2_Witness ==
    /\ pc = "to_numeric"
    /\ Len(raw.rows) = 2
    /\ Cardinality(YearPos(raw.cols)) = 2
    /\ Cardinality(IdPos(raw.cols)) >= 2
    /\ Len(df.rows) = 4

\* The labels of the melted frame before 'year' and 'value'.
MeltedIds == SubSeq(df.cols, 1, Len(df.cols) - 2)

\* The label without one trailing time-axis marker.
StripSuffix(s) ==
    IF Len(s) >= Len(TimeMarker)
       /\ SubSeq(s, Len(s) - Len(TimeMarker) + 1, Len(s)) = TimeMarker
    THEN SubSeq(s, 1, Len(s) - Len(TimeMarker))
    ELSE s

SuffixedYear(c) == isdigit(StripSuffix(str(c)))

NotSuffixedYear(c) == ~SuffixedYear(c)

\* C9 as stated, for tables whose labels are all strings: the identifier
\* columns are exactly the columns whose name, one trailing marker removed, is
\* not all digits, in their original order.
C9_SuffixStripped ==
    (pc = "to_numeric" /\ \A j \in 1..Len(raw.cols) : raw.cols[j].t = "str")
        => MeltedIds = SelectSeq(raw.cols, NotSuffixedYear)

\* C9 amended: a column is a year column iff its name as given, nothing
\* removed, is a non-empty string of decimal digits or is an integer; all
\* other columns are identifier columns and keep their original order.
C9_ClassifiedByName ==
    pc = "to_numeric" => MeltedIds = SelectSeq(raw.cols, NotYearToken)

\* A table with a year column, a marker-suffixed digit label and other
\* identifier columns was classified, the suffixed label as an identifier.
C9_Witness ==
    /\ pc = "to_numeric"
    /\ h_2021 \in Range(raw.cols)
    /\ h_2022_time \in Range(MeltedIds)
    /\ Len(MeltedIds) >= 3

ParseableToken(c) ==
    \/ c \in {v_10_5, v_11_0}
    \/ c.t = "str" /\ Len(c.s) = 3 /\ c.s[2] = "."
       /\ IsDigitChar(c.s[1]) /\ IsDigitChar(c.s[3])

\* The number a parseable token of the tables denotes.
TokenNumber(c) ==
    IF c = v_10_5 THEN Num(21, 2)
    ELSE IF c = v_11_0 THEN Num(11, 1)
    ELSE Num(10 * DigitVal(c.s[1]) + DigitVal(c.s[3]), 10)

AllParseable(frame) ==
    /\ frame.cols = Header1
    /\ \A i \in 1..Len(frame.rows) :
          /\ frame.rows[i][1] # NaN
          /\ ParseableToken(frame.rows[i][5])
          /\ ParseableToken(frame.rows[i][6])

YearOfPos(j) == IF j = 5 THEN Num(2021, 1) ELSE Num(2022, 1)

\* The normalized record of input row i and year column j of a Header1 table.
NormalizedRecord(frame, i, j) ==
    SubSeq(frame.rows[i], 1, 4) \o <<YearOfPos(j), TokenNumber(frame.rows[i][j])>>

\* C6: a table [geo\time, age, sex, unit, 2021, 2022] of n rows, all cells
\* parseable, is stored with the fields geo, age, sex, unit, year, value and
\* exactly 2n records: for each row and year the record of the row's
\* identifier cells, the numeric year and the numeric cell; the one-row
\* scenario yields exactly its two records.
C6_EndToEnd ==
    (pc = "next" /\ AllParseable(raw))
        => /\ Len(cleaned_data) = 1
           /\ cleaned_data[1].df.cols = <<c_geo, h_age, h_sex, h_unit, c_year, c_value>>
           /\ Len(cleaned_data[1].df.rows) = 2 * Len(raw.rows)
           /\ \A i \in 1..Len(raw.rows) : \A j \in {5, 6} :
                 Count(cleaned_data[1].df.rows, NormalizedRecord(raw, i, j))
                    = Cardinality({p \in (1..Len(raw.rows)) \X {5, 6} :
                                      NormalizedRecord(raw, p[1], p[2])
                                         = NormalizedRecord(raw, i, j)})
           /\ raw.rows = <<(<<v_IT, v_Y15_29, v_T, v_PC_ACT, v_10_5, v_11_0>>)>>
                 => Range(cleaned_data[1].df.rows)
                       = {<<v_IT, v_Y15_29, v_T, v_PC_ACT, Num(2021, 1), Num(21, 2)>>,
                          <<v_IT, v_Y15_29, v_T, v_PC_ACT, Num(2022, 1), Num(11, 1)>>}

\* The one-row scenario was normalized and stored.
C6_Witness ==
    /\ pc = "next"
    /\ raw = [cols |-> Header1,
              rows |-> <<(<<v_IT, v_Y15_29, v_T, v_PC_ACT, v_10_5, v_11_0>>)>>]
    /\ Len(cleaned_data) = 1
    /\ Len(cleaned_data[1].df.rows) = 2

-----------------------------------------------------------------------------
(* The poverty query of the dashboard (app_dashboard.py lines 118-135) over  *)
(* the poverty_risk table.  A row of the table is a record; 'indic' stands   *)
(* for any identifier column of the dataset beyond those the query names     *)
(* (the ETL keeps every identifier column, etl_eurostat.py lines 52-55).     *)

Row(geo, year, age, sex, unit, indic, value) ==
    [geo |-> geo, year |-> year, age |-> age, sex |-> sex, unit |-> unit,
     indic |-> indic, value |-> value]

\* Rows the filters of a query for IT and 2023 accept or reject on age alone.
BaseRows ==
    {Row("IT", 2023, a, "T", "PC", i, v) :
        a \in {"Y16-29", "Y25-54", "Y50-64", "TOTAL"},
        i \in {"LI_R_MD60", "LI_R_MD50"},
        v \in {10, 20, 30}}

\* Rows differing from the base in one filtered column.
OtherRows ==
    {Row("FR", 2023, "Y25-54", "T", "PC", "LI_R_MD60", 20),
     Row("FR", 2023, "Y50-64", "T", "PC", "LI_R_MD60", 10),
     Row("IT", 2022, "Y25-54", "T", "PC", "LI_R_MD60", 20),
     Row("IT", 2023, "Y25-54", "F", "PC", "LI_R_MD60", 20),
     Row("IT", 2023, "Y25-54", "T", "THS_PER", "LI_R_MD60", 20)}

RowPool == BaseRows \cup OtherRows

\* The subsets of S of at most k elements.
RECURSIVE SubsetsUpTo(_, _)
SubsetsUpTo(S, k) ==
    IF k = 0 THEN {{}}
    ELSE LET smaller == SubsetsUpTo(S, k - 1)
         IN  smaller \cup {T \cup {x} : T \in smaller, x \in S}

Tables == SubsetsUpTo(RowPool, MaxTableRows)

\* The sidebar's selections: a non-empty set of countries (lines 82-91) and
\* the upper end of the year range (line 94).
ParamChoices ==
    {[countries |-> c, year |-> y] :
        c \in (SUBSET {"IT", "FR"}) \ {{}}, y \in {2022, 2023}}

\* Variant of retained: only the mapped codes are retained.
retainedMutMappedOnly == {"Y25-54", "Y50-64"}

\* Line 130: age IN (...)
retained == {"Y16-29", "Y25-54", "Y50-64"}

\* Lines 122-125: CASE WHEN age IN ('Y25-54', 'Y50-64') THEN 'Y25-64' ELSE age END
age_group(age) == IF age \in {"Y25-54", "Y50-64"} THEN "Y25-64" ELSE age

\* Lines 128-132: the WHERE clause.
where(r, p) ==
    /\ r.geo \in p.countries
    /\ r.year = p.year
    /\ r.age \in retained
    /\ r.sex = "T"
    /\ r.unit = "PC"

\* Line 133: GROUP BY geo, year, age_group, sex, unit
group_key(r) ==
    [geo |-> r.geo, year |-> r.year, age_group |-> age_group(r.age),
     sex |-> r.sex, unit |-> r.unit]

RECURSIVE SumValues(_)
SumValues(S) ==
    IF S = {} THEN 0
    ELSE LET r == CHOOSE x \in S : TRUE
         IN  r.value + SumValues(S \ {r})

\* Variant of AVG: integer division.
AVGMutTruncated(S) == Num(SumValues(S) \div Cardinality(S), 1)

\* Line 126: AVG(value) over the rows of one group.
AVG(S) == Num(SumValues(S), Cardinality(S))

\* Lines 120-134: the rows the query returns.
query_poverty(T, p) ==
    LET rows == {r \in T : where(r, p)}
        keys == {group_key(r) : r \in rows}
    IN  {[geo |-> k.geo, year |-> k.year, age_group |-> k.age_group,
          sex |-> k.sex, unit |-> k.unit,
          value |-> AVG({r \in rows : group_key(r) = k})] : k \in keys}

InitQuery ==
    /\ pc = "sidebar"
    /\ raw = NoFrame
    /\ df = NoFrame
    /\ idx = 1
    /\ cleaned_data = <<>>
    /\ sink = {}
    /\ log = <<>>
    /\ fetched = <<>>
    /\ table \in Tables
    /\ params = NoParams
    /\ result = {}

\* Lines 82-94: countries and year range are selected.
SelectFilters ==
    /\ pc = "sidebar"
    /\ params' \in ParamChoices
    /\ pc' = "query"
    /\ UNCHANGED <<raw, df, idx, cleaned_data, sink, log, fetched, table, result>>

\* Lines 135 and 35-37: the query runs and its rows are returned.
RunQuery ==
    /\ pc = "query"
    /\ result' = query_poverty(table, params)
    /\ pc' = "queried"
    /\ UNCHANGED <<raw, df, idx, cleaned_data, sink, log, fetched, table, params>>

\* Lines 38-40: the query raises and an empty DataFrame is returned.
QueryFails ==
    /\ pc = "query"
    /\ result' = {}
    /\ pc' = "query_error"
    /\ UNCHANGED <<raw, df, idx, cleaned_data, sink, log, fetched, table, params>>

NextQuery == SelectFilters \/ RunQuery \/ QueryFails

SpecQuery == InitQuery /\ [][NextQuery]_vars

-----------------------------------------------------------------------------
(* Properties of the poverty query *)

\* The table holds exactly rows A = 10, B = 20, C = 30 (A and B mapped to X,
\* C retained and unmapped) that share every other field and pass the filters.
ABCTable ==
    /\ pc = "queried"
    /\ \E g \in params.countries : \E i \in {"LI_R_MD60", "LI_R_MD50"} :
          table = {Row(g, params.year, "Y25-54", "T", "PC", i, 10),
                   Row(g, params.year, "Y50-64", "T", "PC", i, 20),
                   Row(g, params.year, "Y16-29", "T", "PC", i, 30)}

\* C5 as stated: exactly one row with code X = 'Y25-64', of value 15, and no
\* row with code C = 'Y16-29'.
C5_UnmappedDropped ==
    ABCTable
        => /\ Cardinality({o \in result : o.age_group = "Y25-64"}) = 1
           /\ \A o \in result : o.age_group = "Y25-64" => o.value = Num(15, 1)
           /\ \A o \in result : o.age_group # "Y16-29"

\* C5 amended: exactly one row with code X, of value 15, and exactly one row
\* with code C, of value 30; the output holds no other row.
C5_UnmappedKept ==
    ABCTable
        => /\ Cardinality({o \in result : o.age_group = "Y25-64"}) = 1
           /\ \A o \in result : o.age_group = "Y25-64" => o.value = Num(15, 1)
           /\ Cardinality({o \in result : o.age_group = "Y16-29"}) = 1
           /\ \A o \in result : o.age_group = "Y16-29" => o.value = Num(30, 1)
           /\ Cardinality(result) = 2

\* The query ran over the three rows A = 10, B = 20, C = 30.
C5_Witness == ABCTable /\ result # {}

\* The source rows the filters accept.
Accepted ==
    {r \in table : /\ r.geo \in params.countries
                   /\ r.year = params.year
                   /\ r.sex = "T"
                   /\ r.unit = "PC"
                   /\ r.age \in {"Y16-29", "Y25-54", "Y50-64"}}

\* The post-mapping code of a retained code.
TargetCode(a) == IF a = "Y16-29" THEN a ELSE "Y25-64"

\* The grouping key of all other identifier fields plus the post-mapping code.
FullKey(r) == <<r.geo, r.year, r.sex, r.unit, r.indic, TargetCode(r.age)>>

\* The grouping key of the columns the query names.
NamedKey(r) == <<r.geo, r.year, r.sex, r.unit, TargetCode(r.age)>>

OutKey(o) == <<o.geo, o.year, o.sex, o.unit, o.age_group>>

\* The source rows contributing to output row o.
Contributing(o) == {r \in Accepted : NamedKey(r) = OutKey(o)}

-----------------------------------------------------------------------------
(* Properties of the type coercion *)

\* What coercion makes of each kind of cell the tables hold: a number stays,
\* a numeric token becomes its number, a placeholder, a flagged token and a
\* missing cell become the missing marker.
CoercedCell(c) ==
    IF c.t = "num" THEN c
    ELSE IF c = h_2021 THEN Num(2021, 1)
    ELSE IF c = h_2022 THEN Num(2022, 1)
    ELSE IF c = v_neg THEN Num(-3, 2)
    ELSE IF ParseableToken(c) THEN TokenNumber(c)
    ELSE NaN

\* The row with its last two cells, year and value, coerced.
CoercedRow(row) ==
    [j \in 1..Len(row) |-> IF j >= Len(row) - 1 THEN CoercedCell(row[j]) ELSE row[j]]

\* C11: the coercion step keeps the labels, the number of rows and their
\* order, leaves the identifier cells alone, replaces each numeric token of
\* year and value by its number and each other token by the missing marker;
\* between the melt and the completeness filter no step changes the number of
\* rows.
C11_CoercionKeepsRows ==
    [][/\ pc = "to_numeric" =>
            /\ pc' = "rename_columns"
            /\ df'.cols = df.cols
            /\ Len(df'.rows) = Len(df.rows)
            /\ \A r \in 1..Len(df.rows) : df'.rows[r] = CoercedRow(df.rows[r])
       /\ pc \in {"to_numeric", "rename_columns", "rename_geo"} =>
            Len(df'.rows) = Len(df.rows)]_vars

\* A melted table with a placeholder, a flagged token, a missing cell and a
\* signed literal has been coerced: all its rows are there, the unparseable
\* values missing, the literal a number.
C11_Witness ==
    /\ pc = "rename_columns"
    /\ raw.cols = <<h_GEO, h_2021>>
    /\ Len(raw.rows) = 2
    /\ raw.rows[1][2] \in {v_colon, v_flagged}
    /\ raw.rows[2][2] = v_neg
    /\ Len(df.rows) = 2
    /\ df.rows[1] = <<raw.rows[1][1], Num(2021, 1), NaN>>
    /\ df.rows[2] = <<raw.rows[2][1], Num(2021, 1), Num(-3, 2)>>

====
